---- MODULE Spec2Model ----
(***************************************************************************)
(* NHLDataPipeline (scripts/shot_data_pipeline.py): the schedule fetch,    *)
(* the per-game fetch, the flattening of one play into a row and the       *)
(* collect_data loop with its per-game exception boundary, rate-limiting   *)
(* sleep and debug break.                                                  *)
(*                                                                         *)
(* JSON values are records [kind, str, fields, items]: kind "null" is      *)
(* None, kind "str" a scalar (numbers and strings alike, written as        *)
(* strings), kind "list" an array whose elements are items, kind "obj" a   *)
(* dict whose mapping is fields.                                           *)
(***************************************************************************)
EXTENDS Integers, Sequences, FiniteSets, TLC

VARIABLES
    pc,               \* where the caller / collect_data stands
    debug,            \* collect_data's debug argument
    start_date,       \* collect_data's start_date argument
    schedule_status,  \* how the schedule request of this run ended
    games,            \* schedule.get('games', []) of this run
    i,                \* 1-based position of the for loop over games
    game_data,        \* process_game's game_data
    plays,            \* process_game's plays
    j,                \* 1-based position of the for loop over plays
    play_events,      \* process_game's play_events
    plays_data,       \* self.plays_data
    csv,              \* the rows the last save_to_csv wrote
    responses,        \* what get_game_data gave for each game fetched in this run
    run_base,         \* len(self.plays_data) when this run was called
    net,              \* this run's game requests and sleeps, in order
    fetched,          \* game requests issued by this object so far
    xfn, xarg, xctx, xout   \* a single function applied to drawn inputs

vars == <<pc, debug, start_date, schedule_status, games, i, game_data, plays, j,
          play_events, plays_data, csv, responses, run_base, net, fetched,
          xfn, xarg, xctx, xout>>

pipeline_vars == <<pc, debug, start_date, schedule_status, games, i, game_data,
          plays, j, play_events, plays_data, csv, responses, run_base, net, fetched>>

fn_vars == <<xfn, xarg, xctx, xout>>

----------------------------------------------------------------------------
(* Bounds *)

\* game fetches issued over the life of one NHLDataPipeline object
MaxFetch == 2
\* plays in one game payload
MaxPlays == 2
\* entries in the gameWeek list of a schedule response
MaxWeek == 2

----------------------------------------------------------------------------
(* JSON values and the dict operations the code uses *)

EmptyFields == [k \in {} |-> 0]

JNull == [kind |-> "null", str |-> "", fields |-> EmptyFields, items |-> <<>>]

JStr(s) == [kind |-> "str", str |-> s, fields |-> EmptyFields, items |-> <<>>]

JList(s) == [kind |-> "list", str |-> "", fields |-> EmptyFields, items |-> s]

JObj(f) == [kind |-> "obj", str |-> "", fields |-> f, items |-> <<>>]

JEmpty == JObj(EmptyFields)

\* the restriction of a dict to some of its keys
Restrict(o, S) == JObj([k \in (DOMAIN o.fields) \cap S |-> o.fields[k]])

\* d.get(k): None when the key is absent
Get(d, k) == IF k \in DOMAIN d.fields THEN d.fields[k] ELSE JNull

\* mutant: the default of .get(k, {}) dropped, so an absent key gives None
GetOrEmptyNoDefault(d, k) == IF k \in DOMAIN d.fields THEN d.fields[k] ELSE JNull

\* d.get(k, {}): the empty dict when the key is absent
GetOrEmpty(d, k) == IF k \in DOMAIN d.fields THEN d.fields[k] ELSE JEmpty

\* d.get(k, []): the empty list when the key is absent
GetOrEmptyList(d, k) == IF k \in DOMAIN d.fields THEN d.fields[k] ELSE JList(<<>>)

\* "for x in v" and len(v) work on a list, and on an empty dict or string (no
\* iteration); iterating a non-empty dict or string yields strings, on which
\* the loop bodies here raise at once; None raises TypeError
CanIterate(v) == v.kind = "list" \/ v = JEmpty \/ v = JStr("")

\* v.get(...) raises AttributeError unless v is a dict
CanGet(v) == v.kind = "obj"

\* v[k] raises (KeyError, TypeError) unless v is a dict holding k
CanIndex(v, k) == v.kind = "obj" /\ k \in DOMAIN v.fields

\* v[k1][k2]
CanIndex2(v, k1, k2) == CanIndex(v, k1) /\ CanIndex(v.fields[k1], k2)

\* dict.update: the keys of new replace those of old
Update(old, new) == new @@ old

----------------------------------------------------------------------------
(* extract_play_data *)

ShotEventTypes == {"shot-on-goal", "goal", "missed-shot", "blocked-shot"}

BaseFields == {"game_id", "event_id", "event_type", "period", "period_type",
               "time_in_period", "time_remaining", "coordinates_x", "coordinates_y",
               "zone_code", "event_owner_team_id", "away_team_id", "home_team_id",
               "situation_code", "home_team_defending_side"}

ShotFields == {"shot_type", "shooter_id", "goalie_id", "away_sog", "home_sog"}

GoalFields == {"scoring_player_id", "assist1_player_id", "assist2_player_id",
               "away_score", "home_score"}

\* x in [list of strings], for a value x read with .get
InList(x, L) == x.kind = "str" /\ x.str \in L

Returned(row) == [raised |-> FALSE, exc |-> "", row |-> row]

Raised(e) == [raised |-> TRUE, exc |-> e, row |-> EmptyFields]

BaseInfo(play_data, game_data_) ==
    LET pd == GetOrEmpty(play_data, "periodDescriptor")
        details == GetOrEmpty(play_data, "details")
    IN  ("game_id" :> game_data_.fields["id"])
     @@ ("event_id" :> Get(play_data, "eventId"))
     @@ ("event_type" :> Get(play_data, "typeDescKey"))
     @@ ("period" :> Get(pd, "number"))
     @@ ("period_type" :> Get(pd, "periodType"))
     @@ ("time_in_period" :> Get(play_data, "timeInPeriod"))
     @@ ("time_remaining" :> Get(play_data, "timeRemaining"))
     @@ ("coordinates_x" :> Get(details, "xCoord"))
     @@ ("coordinates_y" :> Get(details, "yCoord"))
     @@ ("zone_code" :> Get(details, "zoneCode"))
     @@ ("event_owner_team_id" :> Get(details, "eventOwnerTeamId"))
     @@ ("away_team_id" :> game_data_.fields["awayTeam"].fields["id"])
     @@ ("home_team_id" :> game_data_.fields["homeTeam"].fields["id"])
     @@ ("situation_code" :> Get(play_data, "situationCode"))
     @@ ("home_team_defending_side" :> Get(play_data, "homeTeamDefendingSide"))

ShotInfo(details) ==
       ("shot_type" :> Get(details, "shotType"))
    @@ ("shooter_id" :> Get(details, "shootingPlayerId"))
    @@ ("goalie_id" :> Get(details, "goalieInNetId"))
    @@ ("away_sog" :> Get(details, "awaySOG"))
    @@ ("home_sog" :> Get(details, "homeSOG"))

GoalInfo(details) ==
       ("scoring_player_id" :> Get(details, "scoringPlayerId"))
    @@ ("assist1_player_id" :> Get(details, "assist1PlayerId"))
    @@ ("assist2_player_id" :> Get(details, "assist2PlayerId"))
    @@ ("away_score" :> Get(details, "awayScore"))
    @@ ("home_score" :> Get(details, "homeScore"))

IsShotEvent(play_data) == InList(Get(play_data, "typeDescKey"), ShotEventTypes)

\* mutant: the goal overlay applied to every shot event
IsGoalEventAlways(play_data) == TRUE

IsGoalEvent(play_data) == Get(play_data, "typeDescKey") = JStr("goal")

\* the row of a play whose lookups all succeed
PlayInfo(play_data, game_data_) ==
    LET details == GetOrEmpty(play_data, "details")
        base == BaseInfo(play_data, game_data_)
        shot == IF IsShotEvent(play_data) THEN Update(base, ShotInfo(details)) ELSE base
    IN  IF IsShotEvent(play_data) /\ IsGoalEvent(play_data)
        THEN Update(shot, GoalInfo(details))
        ELSE shot

\* the lookups in the order the dict literal evaluates them; the first that
\* fails raises
extract_play_data(play_data, game_data_) ==
    IF ~CanIndex(game_data_, "id") THEN Raised("KeyError")
    ELSE IF ~CanGet(play_data) THEN Raised("AttributeError")
    ELSE IF ~CanGet(GetOrEmpty(play_data, "periodDescriptor")) THEN Raised("AttributeError")
    ELSE IF ~CanGet(GetOrEmpty(play_data, "details")) THEN Raised("AttributeError")
    ELSE IF ~CanIndex2(game_data_, "awayTeam", "id") THEN Raised("KeyError")
    ELSE IF ~CanIndex2(game_data_, "homeTeam", "id") THEN Raised("KeyError")
    ELSE Returned(PlayInfo(play_data, game_data_))

----------------------------------------------------------------------------
(* get_schedule and get_game_data *)

\* an HTTP exchange: requests.get raises on "transport_error",
\* raise_for_status on "http_error"; body is response.json()
Response(status, body) == [status |-> status, body |-> body]

\* mutant: raise_for_status left out, so only a transport error is caught
RequestFailedTransportOnly(resp) == resp.status = "transport_error"

RequestFailed(resp) == resp.status \in {"transport_error", "http_error"}

\* the print of one schedule game: game['id'],
\* game['awayTeam']['placeName']['default'], game['homeTeam']['placeName']['default']
CanPrintGame(game) ==
    /\ CanIndex(game, "id")
    /\ CanIndex2(game, "awayTeam", "placeName")
    /\ CanIndex(game.fields["awayTeam"].fields["placeName"], "default")
    /\ CanIndex2(game, "homeTeam", "placeName")
    /\ CanIndex(game.fields["homeTeam"].fields["placeName"], "default")

Games(gs) == [raised |-> FALSE, exc |-> "", games |-> gs]

ScheduleRaised(e) == [raised |-> TRUE, exc |-> e, games |-> <<>>]

\* mutant: the first entry of the week taken whatever its date
DateMatchesAny(week, date) == TRUE

\* whether the week entry is the one get_schedule takes
DateMatches(week, date) == Get(week, "date") = JStr(date)

\* the for loop over gameWeek from position k: the first entry whose date
\* equals start_date gives the games, and the loop breaks
RECURSIVE ScanWeeks(_, _, _)
ScanWeeks(weeks, k, date) ==
    IF k > Len(weeks) THEN Games(<<>>)
    ELSE LET week == weeks[k] IN
         IF ~CanGet(week) THEN ScheduleRaised("AttributeError")
         ELSE IF DateMatches(week, date)
              THEN LET gs == GetOrEmptyList(week, "games") IN
                   IF ~CanIterate(gs) THEN ScheduleRaised("TypeError")
                   ELSE IF \E n \in 1..Len(gs.items) : ~CanPrintGame(gs.items[n])
                        THEN ScheduleRaised("KeyError")
                        ELSE Games(gs.items)
              ELSE ScanWeeks(weeks, k + 1, date)

\* only requests.exceptions.RequestException is caught
get_schedule(resp, date) ==
    IF RequestFailed(resp) THEN Games(<<>>)
    ELSE IF ~CanGet(resp.body) THEN ScheduleRaised("AttributeError")
    ELSE LET gw == GetOrEmptyList(resp.body, "gameWeek") IN
         IF ~CanIterate(gw) THEN ScheduleRaised("TypeError")
         ELSE ScanWeeks(gw.items, 1, date)

GameData(gd) == [raised |-> FALSE, exc |-> "", game_data |-> gd]

GameRaised(e) == [raised |-> TRUE, exc |-> e, game_data |-> JNull]

\* only requests.exceptions.RequestException is caught; the print of the
\* number of plays calls game_data.get and len
get_game_data(resp) ==
    IF RequestFailed(resp) THEN GameData(JObj("plays" :> JList(<<>>)))
    ELSE IF ~CanGet(resp.body) THEN GameRaised("AttributeError")
    ELSE IF ~CanIterate(GetOrEmptyList(resp.body, "plays")) THEN GameRaised("TypeError")
    ELSE GameData(resp.body)

----------------------------------------------------------------------------
(* Inputs: what the upstream API may answer *)

Team(id) == JObj(("id" :> JStr(id)) @@ ("placeName" :> JObj("default" :> JStr(id))))

\* a well-formed game of a schedule day
ScheduleGame(id) ==
    JObj(("id" :> JStr(id)) @@ ("awayTeam" :> Team("away")) @@ ("homeTeam" :> Team("home")))

\* schedule games missing an expected nested field
ScheduleGameNoId == Restrict(ScheduleGame("g0"), {"awayTeam", "homeTeam"})

ScheduleGameNoPlaceName ==
    JObj(("id" :> JStr("g0")) @@ ("awayTeam" :> JObj("id" :> JStr("away")))
         @@ ("homeTeam" :> Team("home")))

GameId(n) == <<"g1", "g2", "g3", "g4", "g5">>[n]

\* the day's games g1..gn
GameList(n) == [k \in 1..n |-> ScheduleGame(GameId(k))]

Day(date, gs) == JObj(("date" :> JStr(date)) @@ ("games" :> JList(gs)))

Week(days) == JObj("gameWeek" :> JList(days))

FullDetails ==
    JObj(("xCoord" :> JStr("61")) @@ ("yCoord" :> JStr("-12")) @@ ("zoneCode" :> JStr("O"))
      @@ ("eventOwnerTeamId" :> JStr("away"))
      @@ ("shotType" :> JStr("wrist")) @@ ("shootingPlayerId" :> JStr("p1"))
      @@ ("goalieInNetId" :> JStr("p9"))
      @@ ("awaySOG" :> JStr("5")) @@ ("homeSOG" :> JStr("7"))
      @@ ("scoringPlayerId" :> JStr("p1")) @@ ("assist1PlayerId" :> JStr("p2"))
      @@ ("assist2PlayerId" :> JStr("p3"))
      @@ ("awayScore" :> JStr("1")) @@ ("homeScore" :> JStr("0")))

FullPeriod == JObj(("number" :> JStr("1")) @@ ("periodType" :> JStr("REG")))

\* a play carrying every field extract_play_data reads
FullPlay(type) ==
    JObj(("eventId" :> JStr("e1")) @@ ("typeDescKey" :> JStr(type))
      @@ ("periodDescriptor" :> FullPeriod)
      @@ ("timeInPeriod" :> JStr("01:15")) @@ ("timeRemaining" :> JStr("18:45"))
      @@ ("details" :> FullDetails)
      @@ ("situationCode" :> JStr("1551")) @@ ("homeTeamDefendingSide" :> JStr("left")))

\* a play whose details is null: details.get raises
BadPlay == JObj(("eventId" :> JStr("e2")) @@ ("details" :> JNull))

PipelinePlays == {FullPlay("goal"), BadPlay}

PlaySeqs == UNION {[1..n -> PipelinePlays] : n \in 0..MaxPlays}

GamePayload(id, ps) ==
    JObj(("id" :> id) @@ ("awayTeam" :> JObj("id" :> JStr("away")))
      @@ ("homeTeam" :> JObj("id" :> JStr("home"))) @@ ("plays" :> JList(ps)))

\* answers to the play-by-play request of game id
GameResponses(id) ==
       {Response("transport_error", JNull), Response("http_error", JNull)}
  \cup {Response("ok", JList(<<>>))}
  \cup {Response("ok", GamePayload(JStr(id), ps)) : ps \in PlaySeqs}
  \cup {Response("ok", GamePayload(JNull, <<FullPlay("goal")>>))}
  \cup {Response("ok", Restrict(GamePayload(JStr(id), <<FullPlay("goal")>>),
                                {"awayTeam", "homeTeam", "plays"}))}
  \cup {Response("ok", Restrict(GamePayload(JStr(id), <<FullPlay("goal")>>),
                                {"id", "awayTeam", "plays"}))}

OtherDate(date) == IF date = "2025-02-09" THEN "2025-02-10" ELSE "2025-02-09"

\* answers to the schedule request of a run: the requested day is the second
\* entry of the week
ScheduleResponses(date) ==
       {Response("transport_error", JNull), Response("http_error", JNull)}
  \cup {Response("ok", JList(<<>>))}
  \cup {Response("ok", Week(<<Day(OtherDate(date), GameList(1))>>))}
  \cup {Response("ok", Week(<<Day(OtherDate(date), <<ScheduleGame("g9")>>), Day(date, GameList(n))>>))
            : n \in 0..MaxFetch}
  \cup {Response("ok", Week(<<Day(date, <<ScheduleGame("g1"), g>>)>>))
            : g \in {ScheduleGameNoId, ScheduleGameNoPlaceName}}
  \cup {Response("ok", Week(<<Day(OtherDate(date), <<ScheduleGameNoId>>), Day(date, GameList(1))>>))}

StartDates == {"2025-02-09"}

----------------------------------------------------------------------------
(* collect_data, process_game, save_to_csv *)

NoGame == JNull

Init ==
    /\ pc = "idle"
    /\ debug = FALSE
    /\ start_date = ""
    /\ schedule_status = "none"
    /\ games = <<>>
    /\ i = 0
    /\ game_data = NoGame
    /\ plays = <<>>
    /\ j = 0
    /\ play_events = <<>>
    /\ plays_data = <<>>
    /\ csv = <<>>
    /\ responses = <<>>
    /\ run_base = 0
    /\ net = <<>>
    /\ fetched = 0
    /\ xfn = "none" /\ xarg = JNull /\ xctx = JNull /\ xout = JNull

\* the process_game locals, gone when it returns or raises
LeaveGame ==
    /\ game_data' = NoGame
    /\ plays' = <<>>
    /\ j' = 0
    /\ play_events' = <<>>

\* mutant: a failed game ends the loop
AfterGameErrorAborts(k, n) == n + 1

\* the position of the for loop after the except clause handled game k of n
AfterGameError(k, n) == k + 1

\* mutant: the debug break left out
AfterExtendNoBreak(dbg) == "sleep"

\* where collect_data goes after extending plays_data: the debug break leaves
\* the loop, otherwise the rate-limiting sleep follows
AfterExtend(dbg) == IF dbg THEN "returned" ELSE "sleep"

\* what the except clause leaves in self.plays_data
OnGameError(rows, events) == rows

\* self.plays_data when collect_data starts
AtCall(rows) == rows

\* a caller invokes collect_data(start_date, end_date, debug) on the object
Call(d, dbg) ==
    /\ pc \in {"idle", "returned", "raised", "saved"}
    /\ pc' = "get_schedule"
    /\ debug' = dbg
    /\ start_date' = d
    /\ schedule_status' = "none"
    /\ games' = <<>>
    /\ i' = 0
    /\ plays_data' = AtCall(plays_data)
    /\ run_base' = Len(plays_data')
    /\ responses' = <<>>
    /\ net' = <<>>
    /\ UNCHANGED <<game_data, plays, j, play_events, csv, fetched>>
    /\ UNCHANGED fn_vars

\* schedule = self.get_schedule(start_date, end_date)
GetSchedule ==
    /\ pc = "get_schedule"
    /\ \E resp \in ScheduleResponses(start_date) :
         LET r == get_schedule(resp, start_date) IN
         /\ fetched + Len(r.games) <= MaxFetch
         /\ schedule_status' = resp.status
         /\ IF r.raised
            THEN pc' = "raised" /\ UNCHANGED <<games, i>>
            ELSE pc' = "loop" /\ games' = r.games /\ i' = 1
    /\ UNCHANGED <<debug, start_date, game_data, plays, j, play_events, plays_data,
                   csv, responses, run_base, net, fetched>>
    /\ UNCHANGED fn_vars

\* the loop body up to the end of get_game_data: the game's fields are read
\* outside the try, the request and what follows inside it
FetchGame ==
    /\ pc = "loop"
    /\ i <= Len(games)
    /\ IF ~CanPrintGame(games[i])
       THEN /\ pc' = "raised"
            /\ UNCHANGED <<i, game_data, plays, j, play_events, responses, net, fetched>>
       ELSE \E resp \in GameResponses(games[i].fields["id"].str) :
              LET r == get_game_data(resp) IN
              /\ net' = Append(net, "fetch")
              /\ fetched' = fetched + 1
              /\ responses' = Append(responses, r)
              /\ IF r.raised
                 THEN /\ pc' = "loop"
                      /\ i' = AfterGameError(i, Len(games))
                      /\ LeaveGame
                 ELSE /\ pc' = "plays"
                      /\ game_data' = r.game_data
                      /\ plays' = GetOrEmptyList(r.game_data, "plays").items
                      /\ j' = 1
                      /\ play_events' = <<>>
                      /\ UNCHANGED i
    /\ plays_data' = IF pc' = "loop" THEN OnGameError(plays_data, <<>>) ELSE plays_data
    /\ UNCHANGED <<debug, start_date, schedule_status, games, csv, run_base>>
    /\ UNCHANGED fn_vars

\* one turn of process_game's loop: play_events.append(extract_play_data(...))
ExtractPlay ==
    /\ pc = "plays"
    /\ j <= Len(plays)
    /\ LET r == extract_play_data(plays[j], game_data) IN
       IF r.raised
       THEN /\ pc' = "loop"
            /\ i' = AfterGameError(i, Len(games))
            /\ plays_data' = OnGameError(plays_data, play_events)
            /\ LeaveGame
       ELSE /\ play_events' = Append(play_events, r.row)
            /\ j' = j + 1
            /\ UNCHANGED <<pc, i, game_data, plays, plays_data>>
    /\ UNCHANGED <<debug, start_date, schedule_status, games, csv, responses, run_base,
                   net, fetched>>
    /\ UNCHANGED fn_vars

\* process_game returns; self.plays_data.extend(play_events); break when debug
ExtendRows ==
    /\ pc = "plays"
    /\ j > Len(plays)
    /\ plays_data' = plays_data \o play_events
    /\ pc' = AfterExtend(debug)
    /\ LeaveGame
    /\ UNCHANGED <<debug, start_date, schedule_status, games, i, csv, responses,
                   run_base, net, fetched>>
    /\ UNCHANGED fn_vars

\* time.sleep(1), then the next turn of the loop
Sleep ==
    /\ pc = "sleep"
    /\ net' = Append(net, "sleep")
    /\ i' = i + 1
    /\ pc' = "loop"
    /\ UNCHANGED <<debug, start_date, schedule_status, games, game_data, plays, j,
                   play_events, plays_data, csv, responses, run_base, fetched>>
    /\ UNCHANGED fn_vars

\* the loop is exhausted; the debug print reads plays_data[0]; collect_data returns
Return ==
    /\ pc = "loop"
    /\ i > Len(games)
    /\ pc' = "returned"
    /\ UNCHANGED <<debug, start_date, schedule_status, games, i, game_data, plays, j,
                   play_events, plays_data, csv, responses, run_base, net, fetched>>
    /\ UNCHANGED fn_vars

\* save_to_csv after a run: the frame is built from self.plays_data, which is
\* left as it is
save_to_csv ==
    /\ pc = "returned"
    /\ csv' = plays_data
    /\ pc' = "saved"
    /\ UNCHANGED <<debug, start_date, schedule_status, games, i, game_data, plays, j,
                   play_events, plays_data, responses, run_base, net, fetched>>
    /\ UNCHANGED fn_vars

Next ==
    \/ \E d \in StartDates, dbg \in BOOLEAN : Call(d, dbg)
    \/ GetSchedule
    \/ FetchGame
    \/ ExtractPlay
    \/ ExtendRows
    \/ Sleep
    \/ Return
    \/ save_to_csv

Spec == Init /\ [][Next]_vars

----------------------------------------------------------------------------
(* extract_play_data and get_schedule on their own, over drawn inputs *)

PlainPlayKeys == {"eventId", "timeInPeriod", "timeRemaining", "situationCode",
                  "homeTeamDefendingSide"}

PlayKeys == PlainPlayKeys \cup {"typeDescKey", "periodDescriptor", "details"}

CoordKeys == {"xCoord", "yCoord", "zoneCode", "eventOwnerTeamId"}

ShotKeys == {"shotType", "shootingPlayerId", "goalieInNetId", "awaySOG", "homeSOG"}

GoalKeys == {"scoringPlayerId", "assist1PlayerId", "assist2PlayerId", "awayScore",
             "homeScore"}

DetailKeys == CoordKeys \cup ShotKeys \cup GoalKeys

\* the sub-fields of details a drawn play keeps
DetailKeySets ==
    {{}, CoordKeys, ShotKeys, GoalKeys, DetailKeys, DetailKeys \ {"assist2PlayerId"},
     DetailKeys \ {"shotType"}, {"scoringPlayerId"}}

DrawnTypes == ShotEventTypes \cup {"faceoff", "Goal"}

WithField(o, k, v) == JObj((k :> v) @@ o.fields)

\* every subset of the optional fields absent; periodDescriptor and details,
\* when present, full, partial, empty or null
DrawnPlays ==
    {Restrict(WithField(WithField(FullPlay(t), "periodDescriptor", pd), "details", det), S) :
        t \in DrawnTypes,
        pd \in {FullPeriod, Restrict(FullPeriod, {"number"}), JEmpty, JNull},
        det \in {Restrict(FullDetails, D) : D \in DetailKeySets} \cup {JNull},
        S \in SUBSET PlayKeys}

FullGame == GamePayload(JStr("g1"), <<>>)

DrawnGames ==
    {FullGame, GamePayload(JNull, <<>>),
     Restrict(FullGame, {"awayTeam", "homeTeam", "plays"}),
     Restrict(FullGame, {"id", "homeTeam", "plays"}),
     WithField(FullGame, "homeTeam", JEmpty)}

DrawnDates == {"2025-02-09", "2025-02-10"}

DrawnDayGames ==
    {<<>>, GameList(1), GameList(2), <<ScheduleGame("g3")>>,
     <<ScheduleGame("g1"), ScheduleGameNoId>>, <<ScheduleGameNoPlaceName>>}

DrawnDays ==
         {Day(d, gs) : d \in DrawnDates, gs \in DrawnDayGames}
    \cup {Restrict(Day("2025-02-09", gs), {"games"}) : gs \in DrawnDayGames}
    \cup {Restrict(Day(d, <<>>), {"date"}) : d \in DrawnDates}
    \cup {JNull}

DrawnSchedules ==
         {Response("transport_error", JNull), Response("http_error", JNull),
          Response("ok", JList(<<>>)), Response("ok", JEmpty),
          Response("ok", JObj("gameWeek" :> JNull))}
    \cup {Response("ok", Week(days)) : days \in UNION {[1..n -> DrawnDays] : n \in 0..MaxWeek}}

InitFn ==
    /\ pc = "idle"
    /\ debug = FALSE
    /\ start_date = ""
    /\ schedule_status = "none"
    /\ games = <<>>
    /\ i = 0
    /\ game_data = NoGame
    /\ plays = <<>>
    /\ j = 0
    /\ play_events = <<>>
    /\ plays_data = <<>>
    /\ csv = <<>>
    /\ responses = <<>>
    /\ run_base = 0
    /\ net = <<>>
    /\ fetched = 0
    /\ xout = JNull
    /\ \/ xfn = "extract_play_data" /\ xarg \in DrawnPlays /\ xctx \in DrawnGames
       \/ xfn = "get_schedule" /\ xarg \in DrawnSchedules /\ xctx \in DrawnDates

ApplyExtract ==
    /\ xfn = "extract_play_data"
    /\ xout' = extract_play_data(xarg, xctx)
    /\ xfn' = "extract_play_data done"
    /\ UNCHANGED <<xarg, xctx>>
    /\ UNCHANGED pipeline_vars

ApplySchedule ==
    /\ xfn = "get_schedule"
    /\ xout' = get_schedule(xarg, xctx)
    /\ xfn' = "get_schedule done"
    /\ UNCHANGED <<xarg, xctx>>
    /\ UNCHANGED pipeline_vars

NextFn == ApplyExtract \/ ApplySchedule

SpecFn == InitFn /\ [][NextFn]_vars

----------------------------------------------------------------------------
(* What a run is expected to leave, read off the answers it received *)

\* the plays of a fetched game as process_game iterates them
PlaysOf(r) == GetOrEmptyList(r.game_data, "plays").items

\* processing the game raised inside process_game
GameFailed(r) ==
    \/ r.raised
    \/ \E n \in 1..Len(PlaysOf(r)) : extract_play_data(PlaysOf(r)[n], r.game_data).raised

\* one row per play of the game
RowsOf(r) == [n \in 1..Len(PlaysOf(r)) |-> extract_play_data(PlaysOf(r)[n], r.game_data).row]

\* the rows of the games rs[k..] that did not fail, in order
RECURSIVE RowsFrom(_, _)
RowsFrom(rs, k) ==
    IF k > Len(rs) THEN <<>>
    ELSE (IF GameFailed(rs[k]) THEN <<>> ELSE RowsOf(rs[k])) \o RowsFrom(rs, k + 1)

\* the rows this run has appended to self.plays_data
RunRows == SubSeq(plays_data, run_base + 1, Len(plays_data))

Failures == {k \in 1..Len(responses) : GameFailed(responses[k])}

----------------------------------------------------------------------------
(* C1 *)

\* C1: when a non-debug run returns and exactly one game K of its schedule
\* failed in process_game, every game of the schedule was fetched (K+1..N
\* included) and the run appended exactly the rows of the other games, one
\* per play, and none of game K; on a new object these are all of plays_data.
C1_FailedGameSkippedOthersKept ==
    (pc = "returned" /\ ~debug /\ Cardinality(Failures) = 1) =>
        /\ Len(responses) = Len(games)
        /\ RunRows = RowsFrom(responses, 1)
        /\ (run_base = 0 => plays_data = RowsFrom(responses, 1))

\* a run of two games whose first failed and whose second gave two rows
C1_Witness ==
    /\ pc = "returned" /\ ~debug /\ run_base = 0
    /\ Len(games) = 2
    /\ Failures = {1}
    /\ Len(plays_data) = 2
    /\ plays_data[1]["game_id"] = JStr("g2")

----------------------------------------------------------------------------
(* C2, C3: extract_play_data *)

\* the play field each row field is read from: <<key>> or <<key, sub-key>>
FieldSource ==
       ("event_id" :> <<"eventId">>)
    @@ ("event_type" :> <<"typeDescKey">>)
    @@ ("period" :> <<"periodDescriptor", "number">>)
    @@ ("period_type" :> <<"periodDescriptor", "periodType">>)
    @@ ("time_in_period" :> <<"timeInPeriod">>)
    @@ ("time_remaining" :> <<"timeRemaining">>)
    @@ ("coordinates_x" :> <<"details", "xCoord">>)
    @@ ("coordinates_y" :> <<"details", "yCoord">>)
    @@ ("zone_code" :> <<"details", "zoneCode">>)
    @@ ("event_owner_team_id" :> <<"details", "eventOwnerTeamId">>)
    @@ ("situation_code" :> <<"situationCode">>)
    @@ ("home_team_defending_side" :> <<"homeTeamDefendingSide">>)
    @@ ("shot_type" :> <<"details", "shotType">>)
    @@ ("shooter_id" :> <<"details", "shootingPlayerId">>)
    @@ ("goalie_id" :> <<"details", "goalieInNetId">>)
    @@ ("away_sog" :> <<"details", "awaySOG">>)
    @@ ("home_sog" :> <<"details", "homeSOG">>)
    @@ ("scoring_player_id" :> <<"details", "scoringPlayerId">>)
    @@ ("assist1_player_id" :> <<"details", "assist1PlayerId">>)
    @@ ("assist2_player_id" :> <<"details", "assist2PlayerId">>)
    @@ ("away_score" :> <<"details", "awayScore">>)
    @@ ("home_score" :> <<"details", "homeScore">>)

\* the play holds the field at the path
Present(play, path) ==
    /\ path[1] \in DOMAIN play.fields
    /\ Len(path) = 2 => path[2] \in DOMAIN play.fields[path[1]].fields

\* the fields the play does carry are of the expected shape: the claim is
\* about absent fields, not about fields of the wrong type
PresentFieldsSound(play) ==
    /\ play.kind = "obj"
    /\ \A k \in {"periodDescriptor", "details"} \cap DOMAIN play.fields :
          play.fields[k].kind = "obj"

\* the game record carries its identifier and both team identifiers
GameSound(game) ==
    /\ CanIndex(game, "id") /\ game.fields["id"] # JNull
    /\ CanIndex2(game, "awayTeam", "id")
    /\ CanIndex2(game, "homeTeam", "id")

ExtractDone == xfn = "extract_play_data done"

\* C2: on a play from which any subset of the optional fields is absent (all
\* of them included), extract_play_data does not raise; the row's game_id is
\* the game's identifier, and every row field whose source field is absent
\* from the play is null.
C2_MissingFieldsGiveNulls ==
    (ExtractDone /\ PresentFieldsSound(xarg) /\ GameSound(xctx)) =>
        /\ ~xout.raised
        /\ "game_id" \in DOMAIN xout.row
        /\ xout.row["game_id"] = xctx.fields["id"]
        /\ xout.row["game_id"] # JNull
        /\ \A f \in (DOMAIN xout.row) \cap (DOMAIN FieldSource) :
              ~Present(xarg, FieldSource[f]) => xout.row[f] = JNull

\* the play with every optional field absent, flattened against a full game
C2_Witness ==
    /\ ExtractDone /\ xarg = JEmpty /\ xctx = FullGame
    /\ ~xout.raised
    /\ xout.row["game_id"] = JStr("g1")
    /\ xout.row["coordinates_x"] = JNull

EventTypeOf(play) == Get(play, "typeDescKey")

\* C3: the base fields are in every row; the shot fields are in the row if
\* and only if typeDescKey is one of the four shot types; the goal fields are
\* in the row if and only if typeDescKey is goal; a goal whose details name the
\* scorer and two assists yields the three identifiers, and a missed shot with
\* a shotType yields that shot_type and no scorer or assist field.
C3_TieredRow ==
    (ExtractDone /\ ~xout.raised) =>
        LET row == xout.row
            t == EventTypeOf(xarg)
            isShot == t \in {JStr(x) : x \in ShotEventTypes}
            isGoal == t = JStr("goal")
        IN  /\ BaseFields \subseteq DOMAIN row
            /\ DOMAIN row \subseteq BaseFields \cup ShotFields \cup GoalFields
            /\ \A f \in ShotFields : f \in DOMAIN row <=> isShot
            /\ \A f \in GoalFields : f \in DOMAIN row <=> isGoal
            /\ (isGoal /\ Present(xarg, <<"details", "scoringPlayerId">>)
                       /\ Present(xarg, <<"details", "assist1PlayerId">>)
                       /\ Present(xarg, <<"details", "assist2PlayerId">>)) =>
                   /\ row["scoring_player_id"] = JStr("p1")
                   /\ row["assist1_player_id"] = JStr("p2")
                   /\ row["assist2_player_id"] = JStr("p3")
            /\ (t = JStr("missed-shot") /\ Present(xarg, <<"details", "shotType">>)) =>
                   /\ row["shot_type"] = JStr("wrist")
                   /\ {"scoring_player_id", "assist1_player_id", "assist2_player_id"}
                          \cap DOMAIN row = {}

\* a goal with two assists has been flattened
C3_Witness ==
    /\ ExtractDone /\ xarg = FullPlay("goal") /\ xctx = FullGame
    /\ ~xout.raised
    /\ xout.row["assist2_player_id"] = JStr("p3")
    /\ xout.row["shot_type"] = JStr("wrist")

----------------------------------------------------------------------------
(* C4 *)

\* C4: every row in plays_data carries a non-null game_id, in every state of
\* every run.
C4_EveryRowHasGameId ==
    \A n \in 1..Len(plays_data) :
        /\ "game_id" \in DOMAIN plays_data[n]
        /\ plays_data[n]["game_id"] # JNull

----------------------------------------------------------------------------
(* C5 *)

ScheduleFailed == schedule_status \in {"transport_error", "http_error"}

\* C5: once the schedule request of a run has failed, get_schedule has given
\* an empty game list without raising and the run goes as on a day without
\* games: no game request is issued, no row is appended, and collect_data
\* returns normally.
C5_FailedScheduleIsEmptyDay ==
    ScheduleFailed =>
        /\ pc \in {"loop", "returned", "saved"}
        /\ games = <<>>
        /\ net = <<>>
        /\ responses = <<>>
        /\ RunRows = <<>>

\* a run whose schedule request met a non-success status has returned
C5_Witness ==
    /\ pc = "returned"
    /\ schedule_status = "http_error"
    /\ games = <<>>

----------------------------------------------------------------------------
(* C6: get_schedule *)

ScheduleDone == xfn = "get_schedule done"

WeekEntries == GetOrEmptyList(xarg.body, "gameWeek").items

\* the positions of the gameWeek entries whose date is the requested one
Matching == {k \in 1..Len(WeekEntries) : Get(WeekEntries[k], "date") = JStr(xctx)}

\* C6: when get_schedule returns on a successful request, its games are
\* those of the first gameWeek entry whose date equals start_date, wherever
\* it sits in the list, and no games when no entry has that date.
C6_FirstMatchingDay ==
    (ScheduleDone /\ xarg.status = "ok" /\ ~xout.raised) =>
        IF Matching = {}
        THEN xout.games = <<>>
        ELSE LET first == CHOOSE k \in Matching : \A m \in Matching : k <= m
             IN  xout.games = GetOrEmptyList(WeekEntries[first], "games").items

\* the requested day is the second entry of the week and its games are returned
C6_Witness ==
    /\ ScheduleDone /\ ~xout.raised
    /\ xctx = "2025-02-09"
    /\ xarg = Response("ok", Week(<<Day("2025-02-10", GameList(1)), Day("2025-02-09", GameList(2))>>))
    /\ xout.games = GameList(2)

----------------------------------------------------------------------------
(* C7 *)

\* C7: in a non-debug run no game request directly follows another game
\* request: the sleep lies between them, whether the earlier game succeeded or
\* failed.
C7_SleepBetweenFetches ==
    ~debug => \A n \in 1..(Len(net) - 1) : ~(net[n] = "fetch" /\ net[n + 1] = "fetch")

----------------------------------------------------------------------------
(* C8 *)

----------------------------------------------------------------------------
(* C9 *)

\* C9: when a run returns, plays_data holds exactly the rows of that run, and
\* a save_to_csv that follows writes exactly those, whatever was called on the
\* object before.
C9_RunStartsEmpty ==
    /\ pc = "returned" => plays_data = RowsFrom(responses, 1)
    /\ pc = "saved" => csv = RowsFrom(responses, 1)

----------------------------------------------------------------------------
(* C10 *)

\* C10: collect_data never lets an exception out to its caller.
C10_NoExceptionEscapes == pc # "raised"

====
